---- MODULE Spec2Model ----
(***************************************************************************)
(* A model of hono-stripe-webhook-middleware: the factory                  *)
(* stripeWebhookMiddleware(...args) and the async handler it returns.      *)
(*                                                                         *)
(* JavaScript strings are modelled as sequences of one-character strings,  *)
(* so that the regular expression of the factory is really matched.  Each  *)
(* handler invocation runs to completion between its awaits; the three     *)
(* awaits (c.req.text(), constructEventAsync(...), next()) are the points  *)
(* where concurrent requests interleave.                                   *)
(***************************************************************************)
EXTENDS Integers, Sequences, FiniteSets

\* ------------------------------------------------------------------ bounds
\* Number of requests handled concurrently by one constructed handler.
MaxReq == 2
\* Longest tail appended to a head when enumerating candidate secrets.
MaxTailLen == 2

Requests == 1..MaxReq

\* ------------------------------------------------------- JavaScript values
JsString(chars) == [t |-> "string", v |-> chars]
JsNull == [t |-> "null", v |-> <<>>]
JsUndefined == [t |-> "undefined", v |-> <<>>]

\* String(x) as RegExp.prototype.test applies it to its argument.
StringOf(x) ==
  CASE x.t = "string" -> x.v
    [] x.t = "null" -> <<"n", "u", "l", "l">>
    [] x.t = "undefined" -> <<"u", "n", "d", "e", "f", "i", "n", "e", "d">>

LowerChars ==
  {"a", "b", "c", "d", "e", "f", "g", "h", "i", "j", "k", "l", "m",
   "n", "o", "p", "q", "r", "s", "t", "u", "v", "w", "x", "y", "z"}
UpperChars ==
  {"A", "B", "C", "D", "E", "F", "G", "H", "I", "J", "K", "L", "M",
   "N", "O", "P", "Q", "R", "S", "T", "U", "V", "W", "X", "Y", "Z"}
DigitChars == {"0", "1", "2", "3", "4", "5", "6", "7", "8", "9"}

\* The literal part of the pattern, whsec_
Whsec == <<"w", "h", "s", "e", "c", "_">>

\* The character class [a-zA-Z0-9]
InClass(ch) == ch \in LowerChars \cup UpperChars \cup DigitChars

\* Position reached after matching the literal lit at position i of s, or 0.
RECURSIVE MatchLiteral(_, _, _, _)
MatchLiteral(s, i, lit, j) ==
  IF j > Len(lit) THEN i
  ELSE IF i > Len(s) THEN 0
  ELSE IF s[i] # lit[j] THEN 0
  ELSE MatchLiteral(s, i + 1, lit, j + 1)

\* Position reached after greedily matching [a-zA-Z0-9]* at position i of s.
RECURSIVE MatchClassStar(_, _)
MatchClassStar(s, i) ==
  IF i <= Len(s) /\ InClass(s[i]) THEN MatchClassStar(s, i + 1) ELSE i

\* /^whsec_[a-zA-Z0-9]+/ without the closing anchor.
RegexTestUnanchored(s) ==
  LET p == MatchLiteral(s, 1, Whsec, 1)
  IN  p # 0 /\ MatchClassStar(s, p) > p

\* /^whsec_[a-zA-Z0-9]+$/.test(s): ^ and $ match only at the two ends of the
\* input (the pattern has no m flag), and + needs at least one character.
RegexTest(s) ==
  LET p == MatchLiteral(s, 1, Whsec, 1)
      q == IF p = 0 THEN 0 ELSE MatchClassStar(s, p)
  IN  p # 0 /\ q > p /\ q = Len(s) + 1

\* The guard with a pattern that lacks the closing anchor.
SecretOkUnanchored(arg) == RegexTestUnanchored(StringOf(arg))

\* The guard of the factory: the secret is args[0].
SecretOk(arg) == RegexTest(StringOf(arg))

InvalidSecretError == [type |-> "Error", message |-> "Invalid webhook secret"]

\* ------------------------------------------------------ candidate secrets
TailChars == {"t", "Z", "9", "_", "-", "\n"}
Tails == UNION {[1..n -> TailChars] : n \in 0..MaxTailLen}
Heads ==
  { <<>>,
    Whsec,
    <<"w", "h", "s", "e", "c">>,
    <<"W", "h", "s", "e", "c", "_">>,
    <<"x", "w", "h", "s", "e", "c", "_">> }
SecretArgs ==
  {JsNull, JsUndefined} \cup {JsString(h \o t) : h \in Heads, t \in Tails}

\* --------------------------------------------------------------- payloads
\* Request bodies: the pretty-printed JSON of the test event, the JSON of a
\* second event, and a body that is not JSON.
Payloads == {"EVENT_PAYLOAD_STRING", "evt_other_json", "not json"}

IsJson(payload) == payload \in {"EVENT_PAYLOAD_STRING", "evt_other_json"}

\* JSON.parse(payload): the object the text denotes.
JsonParse(payload) ==
  IF payload = "EVENT_PAYLOAD_STRING"
  THEN [id |-> "evt_test_webhook", object |-> "event"]
  ELSE [id |-> "evt_other", object |-> "event"]

\* ---------------------------------------------------------------- headers
\* A key nobody configured (no valid secret is this short).
OtherKey == <<"k">>

\* HMAC-SHA256 of the payload under the key, as an ideal MAC.
Sign(payload, key) == [payload |-> payload, key |-> key]
BadSignature == [payload |-> "bad_signature", key |-> <<>>]

\* What c.req.header("stripe-signature") returns: undefined, the empty
\* string, a string that is no t=...,v1=... list, or a timestamped signature.
HeaderUndefined == [kind |-> "undefined", ts |-> "none", v1 |-> BadSignature]
HeaderEmpty == [kind |-> "empty", ts |-> "none", v1 |-> BadSignature]
HeaderMalformed == [kind |-> "malformed", ts |-> "none", v1 |-> BadSignature]
HeaderSigned(ts, sig) == [kind |-> "signed", ts |-> ts, v1 |-> sig]

\* The headers a sender can produce when the handler holds the given secret.
Headers(key) ==
  {HeaderUndefined, HeaderEmpty, HeaderMalformed}
    \cup {HeaderSigned("fresh", BadSignature)}
    \cup {HeaderSigned(ts, Sign(p, k)) :
            ts \in {"fresh", "stale"}, p \in Payloads, k \in {key, OtherKey}}

\* ------------------------------------------------------------ the verifier
\* Stripe.webhooks.constructEventAsync(payload, header, secret): the header
\* is parsed, the signature compared, the timestamp checked against the
\* tolerance, and the payload parsed as JSON.
VerifierError(payload, header, key) ==
  IF header.kind # "signed"
  THEN [type |-> "StripeSignatureVerificationError",
        message |-> "Unable to extract timestamp and signatures from header"]
  ELSE IF header.v1 # Sign(payload, key)
  THEN [type |-> "StripeSignatureVerificationError",
        message |-> "No signatures found matching the expected signature for payload"]
  ELSE IF header.ts # "fresh"
  THEN [type |-> "StripeSignatureVerificationError",
        message |-> "Timestamp outside the tolerance zone"]
  ELSE [type |-> "SyntaxError", message |-> "Unexpected token in JSON"]

VerifierAccepts(payload, header, key) ==
  /\ header.kind = "signed"
  /\ header.v1 = Sign(payload, key)
  /\ header.ts = "fresh"
  /\ IsJson(payload)

\* ----------------------------------------------------------------- errors
NoError == [type |-> "none", message |-> ""]

\* new HTTPException(status, { message, cause })
HTTPException(status, message, cause) ==
  [type |-> "HTTPException", status |-> status, message |-> message,
   cause |-> cause]

\* The missing header answered with another status.
MissingHeaderError401 ==
  HTTPException(401, "Missing stripe-signature header", NoError)

MissingHeaderError ==
  HTTPException(400, "Missing stripe-signature header", NoError)

\* The verifier's error dropped.
VerificationFailedNoCause(cause) ==
  HTTPException(400, "Stripe webhook signature verification failed", NoError)

\* The message of the missing header used for both errors.
VerificationFailedSameMessage(cause) ==
  HTTPException(400, "Missing stripe-signature header", cause)

VerificationFailedError(cause) ==
  HTTPException(400, "Stripe webhook signature verification failed", cause)

\* What a rejected c.req.text() raises (a body that was already consumed, an
\* aborted request).
TextError == [type |-> "TypeError", message |-> "Body is unusable"]

\* What the downstream handlers may raise, and the statuses they may answer.
NextErrors ==
  { [type |-> "Error", message |-> "handler failed"],
    HTTPException(401, "Unauthorized", NoError) }
NextStatuses == {200, 202}

\* ------------------------------------------------------------------ state
VARIABLES
  args0,       \* args[0] of the factory call
  factory,     \* the factory call: idle, returned (a handler) or threw
  pc,          \* per invocation of the handler: the await it is parked at
  req,         \* per invocation: the request in its context (header, body)
  signature,   \* per invocation: const signature
  body,        \* per invocation: const body
  call,        \* per invocation: the arguments constructEventAsync was given
  ctx,         \* per invocation: the context variables, a set of <<key, value>>
  res,         \* per invocation: the statuses of the response downstream set
  outcome,     \* per invocation: the promise the handler returned
  textResult,  \* per invocation: how c.req.text() settled
  nextResult,  \* per invocation: how next() settled
  trace        \* per invocation: the calls made, in order

vars ==
  <<args0, factory, pc, req, signature, body, call, ctx, res, outcome,
    textResult, nextResult, trace>>

NoRequest == [header |-> HeaderUndefined, body |-> "none"]
NoCall == [payload |-> "none", header |-> HeaderUndefined, key |-> <<>>]
Pending == [kind |-> "pending"]
Resolved == [kind |-> "resolved"]
Rejected(error) == [kind |-> "rejected", error |-> error]

\* c.set(key, value) and c.get(key) on the variables of one context.
CSet(c, key, value) == {p \in c : p[1] # key} \cup {<<key, value>>}
CHas(c, key) == \E p \in c : p[1] = key
CGet(c, key) == (CHOOSE p \in c : p[1] = key)[2]

Init ==
  /\ args0 \in SecretArgs
  /\ factory = [state |-> "idle", error |-> NoError]
  /\ pc = [r \in Requests |-> "idle"]
  /\ req = [r \in Requests |-> NoRequest]
  /\ signature = [r \in Requests |-> HeaderUndefined]
  /\ body = [r \in Requests |-> "none"]
  /\ call = [r \in Requests |-> NoCall]
  /\ ctx = [r \in Requests |-> {}]
  /\ res = [r \in Requests |-> <<>>]
  /\ outcome = [r \in Requests |-> Pending]
  /\ textResult = [r \in Requests |-> "pending"]
  /\ nextResult = [r \in Requests |-> Pending]
  /\ trace = [r \in Requests |-> <<>>]

\* ------------------------------------------------------------ the factory
\* stripeWebhookMiddleware(...args): throws, or returns the handler.
Construct ==
  /\ factory.state = "idle"
  /\ factory' = IF SecretOk(args0)
                THEN [state |-> "returned", error |-> NoError]
                ELSE [state |-> "threw", error |-> InvalidSecretError]
  /\ UNCHANGED <<args0, pc, req, signature, body, call, ctx, res, outcome,
                 textResult, nextResult, trace>>

\* ------------------------------------------------------------ the handler
\* A handler without the check of the header.
HeaderNeverMissing(h) == FALSE

\* !signature
HeaderMissing(h) == h.kind \in {"undefined", "empty"}

\* A signature kept in one variable of the factory's scope: every invocation
\* passes on what the latest of them stored.
SignatureShared(r) ==
  LET started == {q \in Requests : pc[q] # "idle"}
  IN  signature[CHOOSE q \in started : \A o \in started : o <= q]

\* The signature one invocation passes on: its own const.
SignatureOf(r) == signature[r]

\* constructEventAsync(body, signature, ...args)
ConstructEventArgs(r, b) ==
  [payload |-> b, header |-> SignatureOf(r), key |-> StringOf(args0)]

\* next() awaited inside the try block: its error is caught like the
\* verifier's.
NextFailureCaught(e) == VerificationFailedError(e)

\* What the handler's promise rejects with when next() rejects with e: the
\* await is outside the try block.
NextFailure(e) == e

\* The event stored under another key.
SetEventOtherKey(c, event) == CSet(c, "stripeEvent", event)

\* The event not stored at all.
SetEventSkipped(c, event) == c

\* c.set("event", event)
SetEvent(c, event) == CSet(c, "event", event)

\* The handler is called with a context: it reads the header and either
\* throws or calls c.req.text() and awaits it.
Invoke(r, h, b) ==
  /\ factory.state = "returned"
  /\ pc[r] = "idle"
  /\ req' = [req EXCEPT ![r] = [header |-> h, body |-> b]]
  /\ signature' = [signature EXCEPT ![r] = h]
  /\ IF HeaderMissing(h)
     THEN /\ pc' = [pc EXCEPT ![r] = "done"]
          /\ outcome' = [outcome EXCEPT ![r] = Rejected(MissingHeaderError)]
          /\ trace' = [trace EXCEPT ![r] = <<"header">>]
     ELSE /\ pc' = [pc EXCEPT ![r] = "text"]
          /\ outcome' = outcome
          /\ trace' = [trace EXCEPT ![r] = <<"header", "text">>]
  /\ UNCHANGED <<args0, factory, body, call, ctx, res, textResult, nextResult>>

\* c.req.text() resolves: the handler calls the verifier and awaits it.
TextResolved(r) ==
  /\ pc[r] = "text"
  /\ textResult' = [textResult EXCEPT ![r] = "ok"]
  /\ body' = [body EXCEPT ![r] = req[r].body]
  /\ call' = [call EXCEPT ![r] = ConstructEventArgs(r, req[r].body)]
  /\ trace' = [trace EXCEPT ![r] = Append(@, "verify")]
  /\ pc' = [pc EXCEPT ![r] = "verify"]
  /\ UNCHANGED <<args0, factory, req, signature, ctx, res, outcome, nextResult>>

\* c.req.text() rejects: nothing catches it.
TextRejected(r) ==
  /\ pc[r] = "text"
  /\ textResult' = [textResult EXCEPT ![r] = "failed"]
  /\ outcome' = [outcome EXCEPT ![r] = Rejected(TextError)]
  /\ pc' = [pc EXCEPT ![r] = "done"]
  /\ UNCHANGED <<args0, factory, req, signature, body, call, ctx, res,
                 nextResult, trace>>

\* The verifier resolves with the event: c.set("event", event), then next().
VerifyResolved(r) ==
  /\ pc[r] = "verify"
  /\ VerifierAccepts(call[r].payload, call[r].header, call[r].key)
  /\ ctx' = [ctx EXCEPT ![r] = SetEvent(@, JsonParse(call[r].payload))]
  /\ trace' = [trace EXCEPT ![r] = @ \o <<"set", "next">>]
  /\ pc' = [pc EXCEPT ![r] = "next"]
  /\ UNCHANGED <<args0, factory, req, signature, body, call, res, outcome,
                 textResult, nextResult>>

\* A handler that calls the verifier again after a rejection.
VerifyRejectedRetry(r) ==
  /\ pc[r] = "verify"
  /\ ~VerifierAccepts(call[r].payload, call[r].header, call[r].key)
  /\ trace' = [trace EXCEPT ![r] = Append(@, "verify")]
  /\ pc' = [pc EXCEPT ![r] = IF Len(trace[r]) > 3 THEN "done" ELSE "verify"]
  /\ outcome' = [outcome EXCEPT ![r] =
                   IF Len(trace[r]) > 3
                   THEN Rejected(VerificationFailedError(VerifierError(
                          call[r].payload, call[r].header, call[r].key)))
                   ELSE @]
  /\ UNCHANGED <<args0, factory, req, signature, body, call, ctx, res,
                 textResult, nextResult>>

\* The verifier rejects: the catch block throws the 400 with the cause.
VerifyRejected(r) ==
  /\ pc[r] = "verify"
  /\ ~VerifierAccepts(call[r].payload, call[r].header, call[r].key)
  /\ outcome' = [outcome EXCEPT ![r] = Rejected(VerificationFailedError(
                   VerifierError(call[r].payload, call[r].header, call[r].key)))]
  /\ pc' = [pc EXCEPT ![r] = "done"]
  /\ UNCHANGED <<args0, factory, req, signature, body, call, ctx, res,
                 textResult, nextResult, trace>>

\* next() resolves: downstream has set the response; the handler returns.
NextResolved(r, status) ==
  /\ pc[r] = "next"
  /\ nextResult' = [nextResult EXCEPT ![r] = [kind |-> "returned", status |-> status]]
  /\ res' = [res EXCEPT ![r] = <<status>>]
  /\ outcome' = [outcome EXCEPT ![r] = Resolved]
  /\ pc' = [pc EXCEPT ![r] = "done"]
  /\ UNCHANGED <<args0, factory, req, signature, body, call, ctx, textResult,
                 trace>>

\* next() rejects: the handler's promise rejects.
NextRejected(r, e) ==
  /\ pc[r] = "next"
  /\ nextResult' = [nextResult EXCEPT ![r] = [kind |-> "threw", error |-> e]]
  /\ outcome' = [outcome EXCEPT ![r] = Rejected(NextFailure(e))]
  /\ pc' = [pc EXCEPT ![r] = "done"]
  /\ UNCHANGED <<args0, factory, req, signature, body, call, ctx, res,
                 textResult, trace>>

Next ==
  \/ Construct
  \/ \E r \in Requests, h \in Headers(StringOf(args0)), b \in Payloads :
       Invoke(r, h, b)
  \/ \E r \in Requests : TextResolved(r)
  \/ \E r \in Requests : TextRejected(r)
  \/ \E r \in Requests : VerifyResolved(r)
  \/ \E r \in Requests : VerifyRejected(r)
  \/ \E r \in Requests, status \in NextStatuses : NextResolved(r, status)
  \/ \E r \in Requests, e \in NextErrors : NextRejected(r, e)

Spec == Init /\ [][Next]_vars

\* One of the promises a parked invocation awaits settles and the invocation
\* runs on: the promise of the body, of the verifier or of next.
Settle(r) ==
  \/ TextResolved(r)
  \/ TextRejected(r)
  \/ VerifyResolved(r)
  \/ VerifyRejected(r)
  \/ \E status \in NextStatuses : NextResolved(r, status)
  \/ \E e \in NextErrors : NextRejected(r, e)

\* The awaited promises settle and the event loop resumes every invocation
\* whose promise has settled.
FairSpec == Spec /\ \A r \in Requests : WF_vars(Settle(r))

\* =================================================================== claims
\* Vocabulary of the properties, stated on the request as it arrived and on
\* what the surroundings answered, not on the handler's own variables.

Key == StringOf(args0)
HeaderAbsent(r) == req[r].header.kind = "undefined"
HeaderPresent(r) == req[r].header.kind \in {"malformed", "signed"}
Accepted(r) == VerifierAccepts(req[r].body, req[r].header, Key)
Started(r) == pc[r] # "idle"
Done(r) == pc[r] = "done"
EventSet(r) == CHas(ctx[r], "event")
NextCalled(r) == \E i \in 1..Len(trace[r]) : trace[r][i] = "next"
Is400(e) == e.type = "HTTPException" /\ e.status = 400
FullTrace == <<"header", "text", "verify", "set", "next">>
IsPrefix(s, t) == Len(s) <= Len(t) /\ s = SubSeq(t, 1, Len(s))

\* The pattern ^whsec_[a-zA-Z0-9]+$ read as a description of strings.
WellFormedSecret(a) ==
  /\ a.t = "string"
  /\ Len(a.v) > Len(Whsec)
  /\ SubSeq(a.v, 1, Len(Whsec)) = Whsec
  /\ \A i \in (Len(Whsec) + 1)..Len(a.v) :
       a.v[i] \in LowerChars \cup UpperChars \cup DigitChars

\* C1: a request whose header is a valid signature of its exact body under
\* the configured secret has exactly the verifier's Event in its event slot
\* once the verifier answered, next is called after the slot is written, and
\* when next returns the handler resolves and the response is the one next
\* produced.
C1_ValidRequestContinues ==
  \A r \in Requests :
    (pc[r] \in {"next", "done"} /\ textResult[r] = "ok" /\ Accepted(r)) =>
      /\ EventSet(r)
      /\ CGet(ctx[r], "event") = JsonParse(req[r].body)
      /\ trace[r] = FullTrace
      /\ (nextResult[r].kind = "returned" =>
            /\ outcome[r] = Resolved
            /\ res[r] = <<nextResult[r].status>>)
      /\ (pc[r] = "next" => outcome[r] = Pending)

C1_Witness ==
  \E r \in Requests :
    /\ Done(r) /\ Accepted(r)
    /\ req[r].body = "EVENT_PAYLOAD_STRING"
    /\ ctx[r] = {<<"event", [id |-> "evt_test_webhook", object |-> "event"]>>}
    /\ outcome[r] = Resolved
    /\ res[r] = <<200>>

\* C2: a request whose header is present but which the verifier rejects never
\* has its event slot set and never reaches next, and once its body is read
\* it fails with status 400 carrying the verifier's error as the cause.
C2_RejectedSignatureFails ==
  \A r \in Requests :
    (Started(r) /\ HeaderPresent(r) /\ ~Accepted(r)) =>
      /\ ~EventSet(r)
      /\ ~NextCalled(r)
      /\ nextResult[r] = Pending
      /\ (Done(r) /\ textResult[r] = "ok" =>
            /\ outcome[r].kind = "rejected"
            /\ Is400(outcome[r].error)
            /\ outcome[r].error.cause =
                 VerifierError(req[r].body, req[r].header, Key))

C2_Witness ==
  \E r \in Requests :
    /\ Done(r)
    /\ req[r].header = HeaderSigned("fresh", BadSignature)
    /\ outcome[r].kind = "rejected"
    /\ Is400(outcome[r].error)
    /\ outcome[r].error.cause.type = "StripeSignatureVerificationError"

\* C3: a request without the signature header fails with status 400 at once;
\* its body is never read, the verifier never called, next never called.
C3_MissingHeaderFails ==
  \A r \in Requests :
    (Started(r) /\ HeaderAbsent(r)) =>
      /\ Done(r)
      /\ outcome[r].kind = "rejected"
      /\ Is400(outcome[r].error)
      /\ trace[r] = <<"header">>
      /\ textResult[r] = "pending"
      /\ call[r] = NoCall
      /\ nextResult[r] = Pending

C3_Witness ==
  \E r \in Requests :
    /\ Done(r) /\ HeaderAbsent(r)
    /\ req[r].body = "EVENT_PAYLOAD_STRING"
    /\ Is400(outcome[r].error)

\* C4: the factory returns a handler exactly when the secret matches
\* ^whsec_[a-zA-Z0-9]+$; for every other value (the empty string, null and
\* undefined among them) it throws "Invalid webhook secret" in the call
\* itself, no handler exists, and no request ever fails with that error.
C4_FactoryValidatesSecret ==
  /\ factory.state = "returned" => WellFormedSecret(args0)
  /\ factory.state = "threw" =>
       /\ ~WellFormedSecret(args0)
       /\ factory.error = InvalidSecretError
  /\ factory.state # "returned" => \A r \in Requests : ~Started(r)
  /\ \A r \in Requests :
       outcome[r].kind = "rejected" => outcome[r].error # InvalidSecretError

C4_Witness ==
  /\ factory.state = "threw"
  /\ args0 = JsString(Whsec \o <<"t", "\n">>)

\* C5 as stated: when the handler has finished, the event slot is present
\* exactly when the handler completed without raising an error.
C5_EventIffNoError ==
  \A r \in Requests :
    Done(r) => (EventSet(r) <=> outcome[r].kind = "resolved")

\* C5 amended: in a context whose event slot was empty at the start, when the
\* handler has finished the slot is present exactly when the handler either
\* completed without error or failed with the error next raised.
C5_EventIffVerified ==
  \A r \in Requests :
    Done(r) =>
      (EventSet(r) <=>
         (outcome[r].kind = "resolved" \/ nextResult[r].kind = "threw"))

C5_Witness ==
  \E r \in Requests :
    /\ Done(r)
    /\ nextResult[r].kind = "threw"
    /\ outcome[r].kind = "rejected"
    /\ EventSet(r)

\* C6: an error raised by next after a successful verification is the error
\* the handler fails with: not caught, not wrapped, not turned into the 400
\* of a failed verification.
C6_NextErrorPropagates ==
  \A r \in Requests :
    nextResult[r].kind = "threw" =>
      /\ Done(r)
      /\ outcome[r] = Rejected(nextResult[r].error)

C6_Witness ==
  \E r \in Requests :
    /\ Done(r) /\ Accepted(r)
    /\ nextResult[r].kind = "threw"
    /\ outcome[r].error = [type |-> "Error", message |-> "handler failed"]

\* C7 as stated: whenever the handler fails other than through next, at the
\* header check, the body read or the verifier call, its error is a 400.
C7_OwnFailuresAre400 ==
  \A r \in Requests :
    (Done(r) /\ outcome[r].kind = "rejected" /\ nextResult[r].kind # "threw")
      => Is400(outcome[r].error)

\* C7 amended: whenever the handler fails at the header check or at the
\* verifier call its error is a 400; when the body read fails the handler
\* fails with the body read's own error, which it does not turn into a 400.
C7_HeaderAndVerifierFailuresAre400 ==
  \A r \in Requests :
    (Done(r) /\ outcome[r].kind = "rejected" /\ nextResult[r].kind # "threw")
      => IF textResult[r] = "failed"
         THEN outcome[r].error = TextError /\ ~Is400(outcome[r].error)
         ELSE Is400(outcome[r].error)

C7_Witness ==
  \E r \in Requests :
    /\ Done(r)
    /\ textResult[r] = "failed"
    /\ outcome[r] = Rejected(TextError)
    /\ trace[r] = <<"header", "text">>

\* C8 as stated: the 400 of a missing header says "Missing signature header",
\* the 400 of a verifier rejection says "Signature verification failed".
C8_MessagesAsStated ==
  \A r \in Requests :
    (Done(r) /\ outcome[r].kind = "rejected") =>
      /\ trace[r] = <<"header">> =>
           outcome[r].error.message = "Missing signature header"
      /\ trace[r] = <<"header", "text", "verify">> =>
           outcome[r].error.message = "Signature verification failed"

\* C8 amended: the 400 of a missing header says "Missing stripe-signature
\* header", the 400 of a verifier rejection says "Stripe webhook signature
\* verification failed", and the handler makes no error with another message.
C8_MessagesOfTheCode ==
  \A r \in Requests :
    (Done(r) /\ outcome[r].kind = "rejected") =>
      /\ trace[r] = <<"header">> =>
           outcome[r].error.message = "Missing stripe-signature header"
      /\ trace[r] = <<"header", "text", "verify">> =>
           outcome[r].error.message =
             "Stripe webhook signature verification failed"
      /\ (textResult[r] # "failed" /\ nextResult[r].kind # "threw") =>
           outcome[r].error.message \in
             { "Missing stripe-signature header",
               "Stripe webhook signature verification failed" }

C8_Witness ==
  \E r, q \in Requests :
    /\ Done(r) /\ Done(q)
    /\ outcome[r].kind = "rejected" /\ outcome[q].kind = "rejected"
    /\ outcome[r].error.message = "Missing stripe-signature header"
    /\ outcome[q].error.message = "Stripe webhook signature verification failed"

\* What one request must come to, told from its own header and body, the
\* configured secret and what its body read and its next answered.
ExpectedOutcome(r) ==
  IF req[r].header.kind \in {"undefined", "empty"}
  THEN [status |-> "400", next |-> FALSE, event |-> {}]
  ELSE IF textResult[r] = "failed"
  THEN [status |-> "body error", next |-> FALSE, event |-> {}]
  ELSE IF ~Accepted(r)
  THEN [status |-> "400", next |-> FALSE, event |-> {}]
  ELSE [status |-> IF nextResult[r].kind = "returned"
                   THEN "continued" ELSE "next error",
        next |-> TRUE,
        event |-> {JsonParse(req[r].body)}]

ObservedOutcome(r) ==
  [status |->
     IF outcome[r].kind = "resolved" THEN "continued"
     ELSE IF nextResult[r].kind = "threw" THEN "next error"
     ELSE IF Is400(outcome[r].error) THEN "400"
     ELSE "body error",
   next |-> NextCalled(r),
   event |-> {p[2] : p \in {x \in ctx[r] : x[1] = "event"}}]

\* C9: however the requests of one handler interleave, each finished request
\* has the outcome (status, whether next ran, the Event in its own context)
\* that its own header and body, the secret and the verifier determine; two
\* requests with the same body and header both succeed or both fail in
\* verification, and no context ever holds the Event of another request.
C9_RequestsAreIndependent ==
  /\ \A r \in Requests : Done(r) => ObservedOutcome(r) = ExpectedOutcome(r)
  /\ \A r \in Requests :
       EventSet(r) => CGet(ctx[r], "event") = JsonParse(req[r].body)
  /\ \A r, q \in Requests :
       (Done(r) /\ Done(q) /\ req[r] = req[q]
          /\ textResult[r] = "ok" /\ textResult[q] = "ok")
         => (EventSet(r) <=> EventSet(q))

C9_Witness ==
  \E r, q \in Requests :
    /\ r < q
    /\ Done(q) /\ pc[r] = "next"
    /\ req[r].body = "EVENT_PAYLOAD_STRING" /\ req[q].body = "evt_other_json"
    /\ ctx[r] = {<<"event", [id |-> "evt_test_webhook", object |-> "event"]>>}
    /\ ctx[q] = {<<"event", [id |-> "evt_other", object |-> "event"]>>}

\* The four ways a request ends.
EndsMissing(r) ==
  /\ trace[r] = <<"header">>
  /\ outcome[r] = Rejected(MissingHeaderError)
EndsBodyError(r) ==
  /\ trace[r] = <<"header", "text">>
  /\ textResult[r] = "failed"
  /\ outcome[r].kind = "rejected"
EndsInvalid(r) ==
  /\ trace[r] = <<"header", "text", "verify">>
  /\ outcome[r].kind = "rejected"
  /\ outcome[r].error.message = "Stripe webhook signature verification failed"
EndsContinued(r) ==
  /\ trace[r] = FullTrace
  /\ nextResult[r].kind # "pending"

\* The order of the calls of one request, each made at most once and only
\* while the request is not finished.
OnePass(r) ==
  /\ IsPrefix(trace[r], FullTrace)
  /\ pc[r] = "idle" => trace[r] = <<>>
  /\ pc[r] = "text" => trace[r] = <<"header", "text">>
  /\ pc[r] = "verify" => trace[r] = <<"header", "text", "verify">>
  /\ pc[r] = "next" => trace[r] = FullTrace
  /\ "text" \in {trace[r][i] : i \in 1..Len(trace[r])} => ~HeaderMissing(req[r].header)
  /\ EventSet(r) <=> Len(trace[r]) >= 4
  /\ outcome[r] = Pending <=> ~Done(r)

\* C10 as stated: one pass in the order header check, body read, verifier
\* call, context write, next, and every finished request in exactly one of
\* the outcomes 400-missing, 400-invalid, continued.
C10_ThreeOutcomes ==
  \A r \in Requests :
    /\ OnePass(r)
    /\ Done(r) =>
         Cardinality({k \in {"missing", "invalid", "continued"} :
            \/ k = "missing" /\ EndsMissing(r)
            \/ k = "invalid" /\ EndsInvalid(r)
            \/ k = "continued" /\ EndsContinued(r)}) = 1

\* C10 amended: one pass in the order header check, body read, verifier
\* call, context write, next, each at most once, and every finished request
\* in exactly one of the outcomes 400-missing, body read failed, 400-invalid,
\* continued.
C10_OnePassFourOutcomes ==
  \A r \in Requests :
    /\ OnePass(r)
    /\ Done(r) =>
         Cardinality({k \in {"missing", "body", "invalid", "continued"} :
            \/ k = "missing" /\ EndsMissing(r)
            \/ k = "body" /\ EndsBodyError(r)
            \/ k = "invalid" /\ EndsInvalid(r)
            \/ k = "continued" /\ EndsContinued(r)}) = 1

\* Every request that was started finishes, once the promises it awaits
\* settle.
C10_Live == \A r \in Requests : Started(r) ~> Done(r)

\* C10 amended, in full: at every moment each request has made its calls in
\* the one-pass order and, if finished, is in exactly one of the four
\* outcomes; and every started request reaches its outcome.
C10_Temporal == []C10_OnePassFourOutcomes /\ C10_Live

C10_Witness ==
  \E r, q \in Requests :
    /\ Done(r) /\ EndsBodyError(r)
    /\ Done(q) /\ EndsContinued(q)

====
